---- MODULE Spec2Model ----
(***************************************************************************)
(* Model of the diagnosis application (backend/diagnosis): the module-     *)
(* level classifier state of views.py, the Disease and Symptom tables, and *)
(* the request handlers.                                                   *)
(*                                                                         *)
(* Conventions.                                                            *)
(*  - A name (symptom or disease name) is a sequence of Unicode code       *)
(*    points, so that upper-casing and ordering are computed, not assumed. *)
(*  - Sequences are 1-based: index i of the model is index i-1 of the      *)
(*    Python list / numpy array.                                           *)
(*  - A probability is an integer number of 1/10000 (0.8 is 8000).         *)
(*  - A formatted text is a record [head, arg, tail]: the leading phrase,  *)
(*    the value interpolated into it, and the rest.                        *)
(***************************************************************************)
EXTENDS Integers, Sequences, FiniteSets, TLC

\* ------------------------------------------------------------------ bounds
MaxSymptoms == 2
MaxDiseases == 2
MaxSelected == 2
MaxClasses == 2
MaxTopClasses == 6
MaxProb == 2
MaxKbRows == 2
MaxSuggestClasses == 6
MaxE2eRows == 2
MaxHomeSymptoms == 3
MaxSourceEntries == 2
MaxResultClasses == 5
MaxRuns == 2

\* ------------------------------------------------------- program constants
TopK == 5

None == [classes_ |-> <<>>, loaded |-> FALSE]

\* ---------------------------------------------------------------- helpers
Range(s) == {s[i] : i \in 1..Len(s)}

Min2(a, b) == IF a < b THEN a ELSE b

Reverse(s) == [i \in 1..Len(s) |-> s[Len(s) + 1 - i]]

\* s[-k:] of Python
LastK(s, k) == SubSeq(s, Len(s) - Min2(k, Len(s)) + 1, Len(s))

SeqsUpTo(S, n) == UNION {[1..k -> S] : k \in 0..n}

IsInjective(s) == \A i, j \in 1..Len(s) : s[i] = s[j] => i = j

\* str.upper() / SQL UPPER() on one code point: a-z, Cyrillic а-я and ё
UpperChar(c) ==
    IF c >= 97 /\ c <= 122 THEN c - 32
    ELSE IF c >= 1072 /\ c <= 1103 THEN c - 32
    ELSE IF c = 1105 THEN 1025
    ELSE c

Upper(name) == [i \in 1..Len(name) |-> UpperChar(name[i])]

\* ------------------------------------------------------------------- data
\* Symptom names: "К", "ж", "Ё"; "1" is never stored (an unknown name)
SymptomNames == {<<1050>>, <<1078>>, <<1025>>}
UnknownSymptom == <<49>>

\* Disease names: "Г", "г", "К"; "к", " " and "" are only ever looked up
DiseaseNames == {<<1043>>, <<1075>>, <<1050>>}
LookupNames == DiseaseNames \cup {<<1082>>, <<32>>, <<>>}

\* model.classes_ of a loaded classifier with n classes
ClassLabels == << <<1043>>, <<1050>>, <<1075>>, <<1082>>, <<49>>, <<50>>, <<51>>, <<52>> >>

\* String literals are ASCII transliterations of the Russian literals of the
\* source. Marker is "Информация о заболевании".
Marker == "Informaciya o zabolevanii"

Text(h, a, t) == [head |-> h, arg |-> a, tail |-> t]

\* a Disease row; its texts carry the name, so that two rows never agree
DiseaseRecord(n, head, sev) ==
    [name |-> n,
     description |-> Text(head, n, ""),
     treatment |-> IF sev = "high" THEN "Postelnyi rezhim" ELSE "Lechenie ne ukazano",
     symptoms |-> <<"Zhar">>,
     severity |-> sev,
     specialist |-> "Infekcionist",
     category |-> "Infekcionnye"]

\* the rows that can be created: "Г" and "г" differ only in case; the
\* description of "К" itself begins with the marker phrase
DiseaseRecords ==
    {DiseaseRecord(<<1043>>, "Opisanie", "high"),
     DiseaseRecord(<<1075>>, "Opisanie", "medium"),
     DiseaseRecord(<<1050>>, Marker, "low")}

VARIABLES
    symptom_table,              \* Symptom rows in id order (their names)
    disease_table,              \* Disease rows
    phase,                      \* "import" while views.py is being imported
    model,
    diseases_list,
    model_loaded_successfully,
    model_error_message,
    view,                       \* the handler that served the last request
    request,                    \* its input
    current_symptoms,           \* locals of predict / home
    input_vector,
    classifier,                 \* what the classifier did when predict called it
    proba_calls,                \* arguments predict_proba was called with
    probabilities,
    top5_indices,
    disease_info,               \* outcome of get_disease_info_from_db
    suggestions,                \* what get_disease_suggestions returned
    response,
    loader                      \* the load_diseases command: its source and position

globals == <<model, diseases_list, model_loaded_successfully, model_error_message>>
tables == <<symptom_table, disease_table>>
locals == <<view, request, current_symptoms, input_vector, classifier, proba_calls,
            probabilities, top5_indices, disease_info, suggestions, response>>
vars == <<symptom_table, disease_table, phase, model, diseases_list,
          model_loaded_successfully, model_error_message, view, request,
          current_symptoms, input_vector, classifier, proba_calls,
          probabilities, top5_indices, disease_info, suggestions, response,
          loader>>


\* ------------------------------------------------- predict: vector encoder
\* list.index(x): the first position holding x
Index(V, s) == CHOOSE i \in 1..Len(V) : V[i] = s /\ \A j \in 1..(i - 1) : V[j] # s

\* np.zeros(n)
Zeros(n) == [i \in 1..n |-> 0]

\* variant: a name that is not in the vocabulary gets index -1, the last position
RECURSIVE FillVectorUnknownLast(_, _, _)
FillVectorUnknownLast(vec, V, selected) ==
    IF selected = <<>> THEN vec
    ELSE LET symptom == Head(selected)
             next == IF symptom \in Range(V)
                     THEN [vec EXCEPT ![Index(V, symptom)] = 1]
                     ELSE IF vec = <<>> THEN vec
                     ELSE [vec EXCEPT ![Len(vec)] = 1]
         IN  FillVectorUnknownLast(next, V, Tail(selected))

\* variant: input_vector[idx] += 1
RECURSIVE FillVectorCounting(_, _, _)
FillVectorCounting(vec, V, selected) ==
    IF selected = <<>> THEN vec
    ELSE LET symptom == Head(selected)
             next == IF symptom \in Range(V)
                     THEN [vec EXCEPT ![Index(V, symptom)] = @ + 1]
                     ELSE vec
         IN  FillVectorCounting(next, V, Tail(selected))

\* for symptom in selected_symptoms: if symptom in current_symptoms: ...
RECURSIVE FillVector(_, _, _)
FillVector(vec, V, selected) ==
    IF selected = <<>> THEN vec
    ELSE LET symptom == Head(selected)
             next == IF symptom \in Range(V)
                     THEN [vec EXCEPT ![Index(V, symptom)] = 1]
                     ELSE vec
         IN  FillVector(next, V, Tail(selected))

EncodeSymptoms(V, selected) == FillVector(Zeros(Len(V)), V, selected)

\* variant: len(input_vector) in place of np.sum(input_vector)
SumVectorAsLen(vec) == Len(vec)

\* np.sum
RECURSIVE SumVector(_)
SumVector(vec) == IF vec = <<>> THEN 0 ELSE Head(vec) + SumVector(Tail(vec))

\* ---------------------------------------------------- predict: top-5 choice
MinOver(S, p) == CHOOSE m \in {p[i] : i \in S} : \A i \in S : m <= p[i]

\* np.argsort(p) with the default kind ("quicksort", not stable): every
\* ordering of the indices that is ascending in p; the order of equal
\* elements is whatever the build of numpy produces.
RECURSIVE AscOrders(_, _)
AscOrders(S, p) ==
    IF S = {} THEN {<<>>}
    ELSE UNION {{<<i>> \o t : t \in AscOrders(S \ {i}, p)} :
                    i \in {j \in S : p[j] = MinOver(S, p)}}

\* variant: np.argsort(-p), every ordering that is descending in p
ArgsortDescending(p) ==
    {Reverse(o) : o \in AscOrders(1..Len(p), p)}

Argsort(p) == AscOrders(1..Len(p), p)

\* variant: order[-5:] without the reversal
Top5IndicesNoReverse(order) == LastK(order, TopK)

\* order[-5:][::-1]
Top5Indices(order) == Reverse(LastK(order, TopK))

\* f"{probability * 100:.2f}%": the integer and the two decimal digits
Percentage(probability) == [whole |-> probability \div 100, frac |-> probability % 100]

\* --------------------------------------------------- disease lookup (ORM)
InfoOf(r) ==
    [description |-> r.description, treatment |-> r.treatment,
     symptoms |-> r.symptoms, severity |-> r.severity,
     specialist |-> r.specialist, category |-> r.category]

\* variant: the description does not interpolate the name
PlaceholderNoName(disease_name) ==
    [description |-> Text(Marker, <<>>,
                          " gotovitsya nashimi specialistami. Obratites k vrachu"),
     treatment |-> "Dlya naznacheniya lecheniya obratites k specialistu",
     symptoms |-> <<"Informaciya utochnyaetsya">>,
     severity |-> "unknown",
     specialist |-> "Terapevt",
     category |-> "Utochnyaetsya"]

\* the dictionary returned for Disease.DoesNotExist
Placeholder(disease_name) ==
    [description |-> Text(Marker, disease_name,
                          " gotovitsya nashimi specialistami. Obratites k vrachu"),
     treatment |-> "Dlya naznacheniya lecheniya obratites k specialistu",
     symptoms |-> <<"Informaciya utochnyaetsya">>,
     severity |-> "unknown",
     specialist |-> "Terapevt",
     category |-> "Utochnyaetsya"]

\* name__iexact: UPPER(name) = UPPER(value)
IExactMatches(table, disease_name) ==
    {r \in table : Upper(r.name) = Upper(disease_name)}

\* Disease.objects.get(...): one row, DoesNotExist, or MultipleObjectsReturned
\* (only DoesNotExist is caught)
GetDiseaseInfoFromDb(table, disease_name) ==
    LET rows == IExactMatches(table, disease_name)
    IN  IF rows = {}
        THEN [called |-> TRUE, raised |-> "", found |-> FALSE,
              info |-> Placeholder(disease_name)]
        ELSE IF Cardinality(rows) = 1
        THEN [called |-> TRUE, raised |-> "", found |-> TRUE,
              info |-> InfoOf(CHOOSE r \in rows : TRUE)]
        ELSE [called |-> TRUE, raised |-> "MultipleObjectsReturned"]

NotCalled == [called |-> FALSE]


\* ------------------------------------------------------------------- home
\* Symptom.objects.all().order_by("id").values_list("name", flat=True)
GetMlSymptoms(table) == table

\* str comparison of Python: lexicographic by code point
RECURSIVE NameLess(_, _)
NameLess(a, b) ==
    IF b = <<>> THEN FALSE
    ELSE IF a = <<>> THEN TRUE
    ELSE IF Head(a) # Head(b) THEN Head(a) < Head(b)
    ELSE NameLess(Tail(a), Tail(b))

RECURSIVE InsertSorted(_, _)
InsertSorted(sorted, x) ==
    IF sorted = <<>> THEN <<x>>
    ELSE IF NameLess(x, Head(sorted)) THEN <<x>> \o sorted
    ELSE <<Head(sorted)>> \o InsertSorted(Tail(sorted), x)

\* sorted(...)
RECURSIVE Sorted(_)
Sorted(s) ==
    IF s = <<>> THEN <<>>
    ELSE InsertSorted(Sorted(SubSeq(s, 1, Len(s) - 1)), s[Len(s)])

\* variant: symptom[0].upper() without the "#" group
FirstLetterNoHash(symptom) == <<UpperChar(symptom[1])>>

\* symptom[0].upper(), replaced by "#" unless "А" <= first_letter <= "Я"
FirstLetter(symptom) ==
    LET c == UpperChar(symptom[1])
    IN  IF c >= 1040 /\ c <= 1071 THEN <<c>> ELSE <<35>>

\* the dictionary symptoms_by_letter, as the sequence of its items
RECURSIVE GroupByLetter(_, _)
GroupByLetter(groups, symptoms) ==
    IF symptoms = <<>> THEN groups
    ELSE LET symptom == Head(symptoms)
             letter == FirstLetter(symptom)
             added ==
                 IF \E i \in 1..Len(groups) : groups[i].letter = letter
                 THEN [i \in 1..Len(groups) |->
                          IF groups[i].letter = letter
                          THEN [groups[i] EXCEPT !.symptoms = Append(@, symptom)]
                          ELSE groups[i]]
                 ELSE Append(groups, [letter |-> letter, symptoms |-> <<symptom>>])
         IN  IF symptom = <<>>
             THEN GroupByLetter(groups, Tail(symptoms))
             ELSE GroupByLetter(added, Tail(symptoms))

SortedSymptomsByLetter(symptoms) ==
    LET groups == GroupByLetter(<<>>, symptoms)
        sorted_letters == Sorted([i \in 1..Len(groups) |-> groups[i].letter])
        GroupOf(letter) == CHOOSE i \in 1..Len(groups) : groups[i].letter = letter
    IN  [k \in 1..Len(sorted_letters) |->
            [letter |-> sorted_letters[k],
             symptoms |-> Sorted(groups[GroupOf(sorted_letters[k])].symptoms)]]

Render(template, context) ==
    [status |-> 200, template |-> template, context |-> context]

\* an exception that leaves the view: Django answers 500
Unhandled(exception) ==
    [status |-> 500, template |-> "", raised |-> exception]

\* variant: the context does not carry the load flag and the error message
HomeResponseHidesFailure(table, dl, loaded, error_message) ==
    LET symptoms == GetMlSymptoms(table)
    IN  Render("diagnosis/home.html",
               [symptoms |-> symptoms,
                symptoms_by_letter |-> SortedSymptomsByLetter(symptoms),
                symptoms_count |-> Len(symptoms),
                diseases_count |-> Len(dl),
                model_loaded |-> TRUE,
                model_error |-> ""])

HomeResponse(table, dl, loaded, error_message) ==
    LET symptoms == GetMlSymptoms(table)
    IN  Render("diagnosis/home.html",
               [symptoms |-> symptoms,
                symptoms_by_letter |-> SortedSymptomsByLetter(symptoms),
                symptoms_count |-> Len(symptoms),
                diseases_count |-> Len(dl),
                model_loaded |-> loaded,
                model_error |-> error_message])


\* ---------------------------------------------------------------- predict
ErrorText(h, d) == [head |-> h, detail |-> d]

\* "Пожалуйста, выберите хотя бы один симптом"
SelectSymptomMessage == ErrorText("Pozhaluysta, vyberite hotya by odin simptom", "")

\* f"Произошла ошибка при анализе симптомов: {str(e)}"
AnalysisErrorMessage(e) == ErrorText("Proizoshla oshibka pri analize simptomov: ", e)

\* str(e) of the first exception raised while the results list is built:
\* diseases_list[idx] or the Disease lookup of the two enrichment calls
RECURSIVE ResultsRaise(_, _, _)
ResultsRaise(table, dl, indices) ==
    IF indices = <<>> THEN ""
    ELSE IF Head(indices) > Len(dl) THEN "list index out of range"
    ELSE IF GetDiseaseInfoFromDb(table, dl[Head(indices)]).raised # ""
    THEN "get() returned more than one Disease -- it returned 2!"
    ELSE ResultsRaise(table, dl, Tail(indices))

GetDiseaseDescription(table, disease_name) ==
    GetDiseaseInfoFromDb(table, disease_name).info.description

GetDiseaseTreatment(table, disease_name) ==
    GetDiseaseInfoFromDb(table, disease_name).info.treatment

\* variant: the k-th entry is built from the k-th class, not the k-th index
ResultsInClassOrder(table, dl, probs, indices) ==
    [k \in 1..Len(indices) |->
        [disease |-> dl[k],
         probability |-> probs[k],
         percentage |-> Percentage(probs[k]),
         description |-> GetDiseaseDescription(table, dl[k]),
         treatment |-> GetDiseaseTreatment(table, dl[k])]]

Results(table, dl, probs, indices) ==
    [k \in 1..Len(indices) |->
        [disease |-> dl[indices[k]],
         probability |-> probs[indices[k]],
         percentage |-> Percentage(probs[indices[k]]),
         description |-> GetDiseaseDescription(table, dl[indices[k]]),
         treatment |-> GetDiseaseTreatment(table, dl[indices[k]])]]

PredictLocals(cs, iv, calls, probs, top5, resp) ==
    [current_symptoms |-> cs, input_vector |-> iv, proba_calls |-> calls,
     probabilities |-> probs, top5_indices |-> top5, response |-> resp]

\* variant: the emptiness check comes after the call of predict_proba
RejectEmptyAfterCall(cs, iv) ==
    PredictLocals(cs, iv, <<iv>>, <<>>, <<>>,
        Render("diagnosis/error.html", [error |-> SelectSymptomMessage]))

\* variant: a submission without a known symptom is answered with the home page
RejectEmptyAsHome(cs, iv) ==
    PredictLocals(cs, iv, <<>>, <<>>, <<>>,
        Render("diagnosis/home.html", [symptoms |-> cs]))

\* if symptom_count == 0: return render(error.html): predict_proba is not reached
RejectEmpty(cs, iv) ==
    PredictLocals(cs, iv, <<>>, <<>>, <<>>,
        Render("diagnosis/error.html", [error |-> SelectSymptomMessage]))

\* variant: no except clause, the exception leaves the view
ExceptHandlerReraise(e) == Unhandled(e)

\* except Exception as e: return render(error.html, ...)
ExceptHandler(e) ==
    Render("diagnosis/error.html", [error |-> AnalysisErrorMessage(e)])

\* the body of the try block of predict; clf is what the classifier does
\* when it is called: it raises clf.message, or returns clf.proba, whose
\* argsort is clf.order
PredictPost(stable, dtable, dl, selected, clf) ==
    LET cs == GetMlSymptoms(stable)
        iv == EncodeSymptoms(cs, selected)
        top5 == Top5Indices(clf.order)
        exc == ResultsRaise(dtable, dl, top5)
    IN  IF SumVector(iv) = 0
        THEN RejectEmpty(cs, iv)
        ELSE IF clf.raises
        THEN PredictLocals(cs, iv, <<iv>>, <<>>, <<>>, ExceptHandler(clf.message))
        ELSE IF exc # ""
        THEN PredictLocals(cs, iv, <<iv>>, clf.proba, top5, ExceptHandler(exc))
        ELSE PredictLocals(cs, iv, <<iv>>, clf.proba, top5,
                 Render("diagnosis/results.html",
                        [results |-> Results(dtable, dl, clf.proba, top5),
                         symptoms_count |-> Len(selected),
                         selected_symptoms |-> selected]))

\* --------------------------------------------------------- disease_detail
\* difflib.SequenceMatcher: length of the common block of a from i and b from j
BlockLen(a, b, i, j, ahi, bhi) ==
    CHOOSE k \in 0..Min2(ahi - i + 1, bhi - j + 1) :
        /\ \A d \in 0..(k - 1) : a[i + d] = b[j + d]
        /\ k = Min2(ahi - i + 1, bhi - j + 1) \/ a[i + k] # b[j + k]

\* find_longest_match: the longest block, the earliest in a, then in b
FindLongestMatch(a, b, alo, ahi, blo, bhi) ==
    LET size == [p \in (alo..ahi) \X (blo..bhi) |->
                    BlockLen(a, b, p[1], p[2], ahi, bhi)]
        longest == CHOOSE k \in {size[p] : p \in DOMAIN size} :
                       \A p \in DOMAIN size : size[p] <= k
        starts == {p \in DOMAIN size : size[p] = longest}
        best == CHOOSE p \in starts :
                    \A q \in starts : p[1] < q[1] \/ (p[1] = q[1] /\ p[2] <= q[2])
    IN  [i |-> best[1], j |-> best[2], size |-> longest]

\* get_matching_blocks: the total size of the matching blocks
RECURSIVE MatchCount(_, _, _, _, _, _)
MatchCount(a, b, alo, ahi, blo, bhi) ==
    IF alo > ahi \/ blo > bhi THEN 0
    ELSE LET m == FindLongestMatch(a, b, alo, ahi, blo, bhi)
         IN  IF m.size = 0 THEN 0
             ELSE m.size
                  + MatchCount(a, b, alo, m.i - 1, blo, m.j - 1)
                  + MatchCount(a, b, m.i + m.size, ahi, m.j + m.size, bhi)

\* ratio() = 2.0 * matches / (len(a) + len(b)), 1.0 for two empty strings
Ratio(a, b) ==
    IF Len(a) + Len(b) = 0 THEN [num |-> 1, den |-> 1]
    ELSE [num |-> 2 * MatchCount(a, b, 1, Len(a), 1, Len(b)), den |-> Len(a) + Len(b)]

RatioLess(r, q) == r.num * q.den < q.num * r.den

\* difflib.get_close_matches(word, possibilities, n, cutoff): the candidates
\* with ratio >= cutoff, the n largest (ratio, name) pairs, largest first
GetCloseMatches(word, possibilities, n, cutoff) ==
    LET R == [i \in 1..Len(possibilities) |-> Ratio(possibilities[i], word)]
        kept == {i \in 1..Len(possibilities) : ~RatioLess(R[i], cutoff)}
        Before(i, j) ==
            \/ RatioLess(R[j], R[i])
            \/ /\ ~RatioLess(R[i], R[j])
               /\ \/ NameLess(possibilities[j], possibilities[i])
                  \/ possibilities[i] = possibilities[j] /\ i < j
        rank == [i \in kept |-> 1 + Cardinality({j \in kept : Before(j, i)})]
    IN  [k \in 1..Min2(n, Cardinality(kept)) |->
            possibilities[CHOOSE i \in kept : rank[i] = k]]

\* variant: cutoff=0.1
CutoffLower == [num |-> 1, den |-> 10]

\* cutoff=0.3
Cutoff == [num |-> 3, den |-> 10]

\* variant: without a classifier the names are matched against a built-in list
GetDiseaseSuggestionsDefaultList(m, searched_name) ==
    IF m = None \/ m.classes_ = <<>>
    THEN GetCloseMatches(searched_name, <<searched_name>>, 5, Cutoff)
    ELSE GetCloseMatches(searched_name, m.classes_, 5, Cutoff)

\* model.classes_.tolist() if model else []
GetDiseaseSuggestions(m, searched_name) ==
    IF m = None \/ m.classes_ = <<>> THEN <<>>
    ELSE GetCloseMatches(searched_name, m.classes_, 5, Cutoff)

\* is_unknown_disease = disease_info["description"].startswith(...)
IsUnknownDisease(info) == info.raised = "" /\ info.info.description.head = Marker

\* get_disease_suggestions(disease_name) if model else []
DetailSuggestions(m, info, disease_name) ==
    IF IsUnknownDisease(info) /\ m # None
    THEN GetDiseaseSuggestions(m, disease_name)
    ELSE <<>>

\* found is DetailSuggestions(model, info, disease_name)
DiseaseDetailResponse(found, info, disease_name, from_kb) ==
    IF info.raised # "" THEN Unhandled(info.raised)
    ELSE IF IsUnknownDisease(info)
    THEN Render("diagnosis/disease_not_found.html",
                [searched_disease |-> disease_name,
                 suggestions |-> found])
    ELSE Render("diagnosis/disease_detail.html",
                [disease_name |-> disease_name,
                 description |-> info.info.description,
                 treatment |-> info.info.treatment,
                 symptoms |-> info.info.symptoms,
                 severity |-> info.info.severity,
                 specialist |-> info.info.specialist,
                 category |-> info.info.category,
                 emergency_contacts |-> <<"112", "103", "03">>,
                 is_from_knowledge_base |-> from_kb])

\* --------------------------------------------------------- knowledge_base
\* variant: severity_map.get(severity, severity)
GetSeverityDisplayNoDefault(severity) ==
    CASE severity = "high" -> "VYSOKAYA"
      [] severity = "medium" -> "SREDNYAYA"
      [] severity = "low" -> "NIZKAYA"
      [] severity = "unknown" -> "NEOPREDELENA"
      [] severity = "variable" -> "ZAVISIT OT STADII"
      [] OTHER -> severity

\* severity_map.get(severity, "НЕОПРЕДЕЛЕНА"): ВЫСОКАЯ, СРЕДНЯЯ, НИЗКАЯ,
\* НЕОПРЕДЕЛЕНА, ЗАВИСИТ ОТ СТАДИИ
GetSeverityDisplay(severity) ==
    CASE severity = "high" -> "VYSOKAYA"
      [] severity = "medium" -> "SREDNYAYA"
      [] severity = "low" -> "NIZKAYA"
      [] severity = "unknown" -> "NEOPREDELENA"
      [] severity = "variable" -> "ZAVISIT OT STADII"
      [] OTHER -> "NEOPREDELENA"

\* Disease.objects.order_by("name").all()
RECURSIVE OrderByName(_)
OrderByName(table) ==
    IF table = {} THEN <<>>
    ELSE LET first == CHOOSE r \in table :
                          \A q \in table : q.name = r.name \/ NameLess(r.name, q.name)
         IN  <<first>> \o OrderByName(table \ {first})

DiseasesWithInfo(rows) ==
    [i \in 1..Len(rows) |->
        [name |-> rows[i].name,
         info |-> InfoOf(rows[i]),
         severity_display |-> GetSeverityDisplay(rows[i].severity)]]

\* variant: the first character as it is written
DiseaseFirstLetterNoUpper(name) == IF name = <<>> THEN <<>> ELSE <<name[1]>>

\* disease["name"][0].upper() if disease["name"] else ""
DiseaseFirstLetter(name) == IF name = <<>> THEN <<>> ELSE <<UpperChar(name[1])>>

\* the dictionary diseases_by_letter, as the sequence of its items
RECURSIVE DiseasesByLetter(_, _)
DiseasesByLetter(groups, diseases) ==
    IF diseases = <<>> THEN groups
    ELSE LET disease == Head(diseases)
             first_letter == DiseaseFirstLetter(disease.name)
             added ==
                 IF \E i \in 1..Len(groups) : groups[i].letter = first_letter
                 THEN [i \in 1..Len(groups) |->
                          IF groups[i].letter = first_letter
                          THEN [groups[i] EXCEPT !.diseases = Append(@, disease)]
                          ELSE groups[i]]
                 ELSE Append(groups, [letter |-> first_letter, diseases |-> <<disease>>])
         IN  DiseasesByLetter(added, Tail(diseases))

KnowledgeBaseResponse(table) ==
    LET all_diseases_objects == OrderByName(table)
    IN  Render("diagnosis/knowledge_base.html",
               [diseases_by_letter |->
                    DiseasesByLetter(<<>>, DiseasesWithInfo(all_diseases_objects)),
                total_diseases |-> Len(all_diseases_objects)])

\* render(request, template) without a context
NoContext == [k \in {} |-> k]

\* ------------------------------------------------------- inputs of the model
\* POST data: lists of the names "К", "ж" and a name that is never stored
SubmittedNames == {<<1050>>, <<1078>>, UnknownSymptom}

Submissions == SeqsUpTo(SubmittedNames, MaxSelected)

ExceptionMessages == {"ML model failed", "X has 1 features, but model is expecting 2"}

\* arrays of n probabilities, in 1/10000
ProbArrays(n) == [1..n -> 0..MaxProb]

ProbValues == {0, 500, 1500, 2000, 5000, 8000, 10000}

\* what predict_proba returns: a distribution over the n classes
Distributions(n) == {p \in [1..n -> ProbValues] : SumVector(p) = 10000}

ClassifierBehaviours(n) ==
    {[raises |-> TRUE, message |-> m, proba |-> <<>>, order |-> <<>>] :
        m \in ExceptionMessages}
    \cup UNION {{[raises |-> FALSE, message |-> "", proba |-> p, order |-> o] :
                    o \in Argsort(p)} : p \in Distributions(n)}

\* the classifier is not called in the request
NotInvoked == [raises |-> FALSE, message |-> "", proba |-> <<>>, order |-> <<>>]

NoRequest == [method |-> "", path |-> "", symptoms |-> <<>>, disease_name |-> <<>>]

NoResponse == [status |-> 0, template |-> ""]

\* ------------------------------------------------------------------ state
\* load_diseases is not running; DISEASE_DATABASE is empty
NoLoad ==
    [pc |-> "idle", source |-> {}, imported |-> TRUE, stdout |-> "",
     before |-> {}, completed |-> <<>>]

Init ==
    /\ symptom_table = <<>>
    /\ disease_table = {}
    /\ phase = "import"
    /\ model = None
    /\ diseases_list = <<>>
    /\ model_loaded_successfully = FALSE
    /\ model_error_message = ""
    /\ view = ""
    /\ request = NoRequest
    /\ current_symptoms = <<>>
    /\ input_vector = <<>>
    /\ classifier = NotInvoked
    /\ proba_calls = <<>>
    /\ probabilities = <<>>
    /\ top5_indices = <<>>
    /\ disease_info = NotCalled
    /\ suggestions = <<>>
    /\ response = NoResponse
    /\ loader = NoLoad

\* The worker serves one request at a time: no request is in flight
Idle == view = ""

\* the response is returned to the client and the locals of the view are gone
Respond ==
    /\ view # ""
    /\ view' = ""
    /\ request' = NoRequest
    /\ current_symptoms' = <<>>
    /\ input_vector' = <<>>
    /\ classifier' = NotInvoked
    /\ proba_calls' = <<>>
    /\ probabilities' = <<>>
    /\ top5_indices' = <<>>
    /\ disease_info' = NotCalled
    /\ suggestions' = <<>>
    /\ response' = NoResponse
    /\ UNCHANGED <<loader, tables, phase, globals>>

\* views.py is imported: joblib.load succeeds with a classifier of n classes
LoadModelOk(n) ==
    /\ Idle
    /\ phase = "import"
    /\ phase' = "ready"
    /\ model' = [classes_ |-> SubSeq(ClassLabels, 1, n), loaded |-> TRUE]
    /\ diseases_list' = model'.classes_
    /\ model_loaded_successfully' = TRUE
    /\ model_error_message' = ""
    /\ UNCHANGED <<loader, tables, locals>>

\* variant: classes_.tolist() raises after joblib.load has assigned model,
\* and the except clause does not reset model
LoadModelFailKeepsModel ==
    /\ Idle
    /\ phase = "import"
    /\ phase' = "ready"
    /\ model' = [classes_ |-> <<>>, loaded |-> TRUE]
    /\ diseases_list' = <<>>
    /\ model_loaded_successfully' = FALSE
    /\ model_error_message' = "sistema diagnostiki vremenno nedostupna"
    /\ UNCHANGED <<loader, tables, locals>>

\* ... or joblib.load or classes_.tolist() raises: the except clause
LoadModelFail ==
    /\ Idle
    /\ phase = "import"
    /\ phase' = "ready"
    /\ model' = None
    /\ diseases_list' = <<>>
    /\ model_loaded_successfully' = FALSE
    /\ model_error_message' = "sistema diagnostiki vremenno nedostupna"
    /\ UNCHANGED <<loader, tables, locals>>

\* Symptom.objects.create(name=...): a new row gets the next id
SymptomCreate(name) ==
    /\ Idle
    /\ Len(symptom_table) < MaxSymptoms
    /\ name \notin Range(symptom_table)
    /\ symptom_table' = Append(symptom_table, name)
    /\ UNCHANGED <<loader, disease_table, phase, globals, locals>>

\* a Symptom row is deleted in the admin
SymptomDelete(i) ==
    /\ Idle
    /\ i \in 1..Len(symptom_table)
    /\ symptom_table' = SubSeq(symptom_table, 1, i - 1)
                            \o SubSeq(symptom_table, i + 1, Len(symptom_table))
    /\ UNCHANGED <<loader, disease_table, phase, globals, locals>>

\* Disease.objects.create(...): name is unique as an exact string
DiseaseCreate(r) ==
    /\ Idle
    /\ Cardinality(disease_table) < MaxDiseases
    /\ \A d \in disease_table : d.name # r.name
    /\ disease_table' = disease_table \cup {r}
    /\ UNCHANGED <<loader, symptom_table, phase, globals, locals>>

\* a Disease row is deleted in the admin
DiseaseDelete(r) ==
    /\ Idle
    /\ r \in disease_table
    /\ disease_table' = disease_table \ {r}
    /\ UNCHANGED <<loader, symptom_table, phase, globals, locals>>

Home ==
    /\ Idle
    /\ phase = "ready"
    /\ view' = "home"
    /\ request' = [NoRequest EXCEPT !.method = "GET", !.path = "/"]
    /\ current_symptoms' = GetMlSymptoms(symptom_table)
    /\ input_vector' = <<>>
    /\ classifier' = NotInvoked
    /\ proba_calls' = <<>>
    /\ probabilities' = <<>>
    /\ top5_indices' = <<>>
    /\ disease_info' = NotCalled
    /\ suggestions' = <<>>
    /\ response' = HomeResponse(symptom_table, diseases_list,
                                model_loaded_successfully, model_error_message)
    /\ UNCHANGED <<loader, tables, phase, globals>>

\* variant: a name that is not found is stored with the placeholder texts
DiseaseDetailGetOrCreate(disease_name, from_kb) ==
    /\ Idle
    /\ phase = "ready"
    /\ view' = "disease_detail"
    /\ request' = [NoRequest EXCEPT !.method = "GET",
                      !.path = IF from_kb THEN "/knowledge-base/disease/" ELSE "/disease/",
                      !.disease_name = disease_name]
    /\ disease_info' = GetDiseaseInfoFromDb(disease_table, disease_name)
    /\ suggestions' = DetailSuggestions(model, disease_info', disease_name)
    /\ response' = DiseaseDetailResponse(suggestions', disease_info', disease_name, from_kb)
    /\ current_symptoms' = <<>>
    /\ input_vector' = <<>>
    /\ classifier' = NotInvoked
    /\ proba_calls' = <<>>
    /\ probabilities' = <<>>
    /\ top5_indices' = <<>>
    /\ disease_table' =
          IF IExactMatches(disease_table, disease_name) = {}
          THEN disease_table \cup
                  {[name |-> disease_name] @@ Placeholder(disease_name)}
          ELSE disease_table
    /\ UNCHANGED <<loader, symptom_table, phase, globals>>

\* GET /disease/<name>/ or /knowledge-base/disease/<name>/
DiseaseDetail(disease_name, from_kb) ==
    /\ Idle
    /\ phase = "ready"
    /\ view' = "disease_detail"
    /\ request' = [NoRequest EXCEPT !.method = "GET",
                      !.path = IF from_kb THEN "/knowledge-base/disease/" ELSE "/disease/",
                      !.disease_name = disease_name]
    /\ disease_info' = GetDiseaseInfoFromDb(disease_table, disease_name)
    /\ suggestions' = DetailSuggestions(model, disease_info', disease_name)
    /\ response' = DiseaseDetailResponse(suggestions', disease_info', disease_name, from_kb)
    /\ current_symptoms' = <<>>
    /\ input_vector' = <<>>
    /\ classifier' = NotInvoked
    /\ proba_calls' = <<>>
    /\ probabilities' = <<>>
    /\ top5_indices' = <<>>
    /\ UNCHANGED <<loader, tables, phase, globals>>

\* the locals of predict and disease_detail, in a view that has none of them
NoLocals ==
    /\ current_symptoms' = <<>>
    /\ input_vector' = <<>>
    /\ classifier' = NotInvoked
    /\ proba_calls' = <<>>
    /\ probabilities' = <<>>
    /\ top5_indices' = <<>>
    /\ disease_info' = NotCalled
    /\ suggestions' = <<>>

\* variant: the view stores the names of the rows in the global diseases_list
KnowledgeBaseSetsDiseasesList ==
    /\ Idle
    /\ phase = "ready"
    /\ view' = "knowledge_base"
    /\ request' = [NoRequest EXCEPT !.method = "GET", !.path = "/knowledge-base/"]
    /\ response' = KnowledgeBaseResponse(disease_table)
    /\ NoLocals
    /\ diseases_list' = [i \in 1..Len(OrderByName(disease_table)) |->
                            OrderByName(disease_table)[i].name]
    /\ UNCHANGED <<loader, tables, phase, model, model_loaded_successfully, model_error_message>>

\* GET /knowledge-base/
KnowledgeBase ==
    /\ Idle
    /\ phase = "ready"
    /\ view' = "knowledge_base"
    /\ request' = [NoRequest EXCEPT !.method = "GET", !.path = "/knowledge-base/"]
    /\ response' = KnowledgeBaseResponse(disease_table)
    /\ NoLocals
    /\ UNCHANGED <<loader, tables, phase, globals>>

\* GET /about/
About ==
    /\ Idle
    /\ phase = "ready"
    /\ view' = "about"
    /\ request' = [NoRequest EXCEPT !.method = "GET", !.path = "/about/"]
    /\ response' = Render("diagnosis/about.html", NoContext)
    /\ NoLocals
    /\ UNCHANGED <<loader, tables, phase, globals>>

\* GET /how-to-use/
HowToUse ==
    /\ Idle
    /\ phase = "ready"
    /\ view' = "how_to_use"
    /\ request' = [NoRequest EXCEPT !.method = "GET", !.path = "/how-to-use/"]
    /\ response' = Render("diagnosis/how_to_use.html", NoContext)
    /\ NoLocals
    /\ UNCHANGED <<loader, tables, phase, globals>>

\* predict_proba is reached: a POST, a loaded classifier, a non-zero vector
ClassifierCalled(method, selected) ==
    /\ method = "POST"
    /\ model # None
    /\ SumVector(EncodeSymptoms(GetMlSymptoms(symptom_table), selected)) # 0

PredictRequest(method, selected, clf) ==
    /\ view' = "predict"
    /\ request' = [NoRequest EXCEPT !.method = method, !.path = "/predict/",
                                    !.symptoms = selected]
    /\ IF method = "POST" /\ model # None
       THEN \E out \in {PredictPost(symptom_table, disease_table, diseases_list,
                                    selected, clf)} :
                /\ current_symptoms' = out.current_symptoms
                /\ input_vector' = out.input_vector
                /\ classifier' = clf
                /\ proba_calls' = out.proba_calls
                /\ probabilities' = out.probabilities
                /\ top5_indices' = out.top5_indices
                /\ response' = out.response
       ELSE /\ current_symptoms' = GetMlSymptoms(symptom_table)
            /\ input_vector' = <<>>
            /\ classifier' = NotInvoked
            /\ proba_calls' = <<>>
            /\ probabilities' = <<>>
            /\ top5_indices' = <<>>
            /\ response' = HomeResponse(symptom_table, diseases_list,
                                        model_loaded_successfully,
                                        model_error_message)
    /\ disease_info' = NotCalled
    /\ suggestions' = <<>>
    /\ UNCHANGED <<loader, tables, phase, globals>>

\* a request to /predict/: its method, its POST data, and what the classifier
\* does if the view calls it
Predict ==
    /\ Idle
    /\ phase = "ready"
    /\ \E method \in {"GET", "POST"} :
         \E selected \in IF method = "POST" THEN Submissions ELSE {<<>>} :
            \E clf \in IF ClassifierCalled(method, selected)
                        THEN ClassifierBehaviours(Len(diseases_list))
                        ELSE {NotInvoked} :
                PredictRequest(method, selected, clf)

Next ==
    \/ \E n \in 1..MaxClasses : LoadModelOk(n)
    \/ LoadModelFail
    \/ \E name \in SymptomNames : SymptomCreate(name)
    \/ \E i \in 1..MaxSymptoms : SymptomDelete(i)
    \/ \E r \in DiseaseRecords : DiseaseCreate(r)
    \/ \E r \in DiseaseRecords : DiseaseDelete(r)
    \/ Home
    \/ Respond
    \/ Predict
    \/ KnowledgeBase
    \/ About
    \/ HowToUse
    \/ \E disease_name \in LookupNames, from_kb \in BOOLEAN :
          DiseaseDetail(disease_name, from_kb)

Spec == Init /\ [][Next]_vars


\* ------------------------------------------- the top-5 selection on its own
\* every probability array of 1..MaxTopClasses classes
InitTopK ==
    /\ symptom_table = <<>>
    /\ disease_table = {}
    /\ phase = "ready"
    /\ model = None
    /\ diseases_list = <<>>
    /\ model_loaded_successfully = FALSE
    /\ model_error_message = ""
    /\ view = ""
    /\ request = NoRequest
    /\ current_symptoms = <<>>
    /\ input_vector = <<>>
    /\ classifier = NotInvoked
    /\ proba_calls = <<>>
    /\ probabilities \in UNION {ProbArrays(n) : n \in 1..MaxTopClasses}
    /\ top5_indices = <<>>
    /\ disease_info = NotCalled
    /\ suggestions = <<>>
    /\ response = NoResponse
    /\ loader = NoLoad

\* top5_indices = np.argsort(probabilities)[-5:][::-1]
SelectTop5 ==
    /\ view = ""
    /\ view' = "top5"
    /\ \E order \in Argsort(probabilities) :
          /\ classifier' = [NotInvoked EXCEPT !.proba = probabilities, !.order = order]
          /\ top5_indices' = Top5Indices(order)
    /\ UNCHANGED <<loader, tables, phase, globals, request, current_symptoms, input_vector,
                   proba_calls, probabilities, disease_info, suggestions, response>>

SpecTopK == InitTopK /\ [][SelectTop5]_vars

\* ------------------------------------------ the knowledge base on its own
\* severity is a free CharField: the five codes of the map, and strings that
\* are not keys of it
Severities == {"high", "medium", "low", "unknown", "variable", "invalid", "HIGH", ""}

KbRecords == {DiseaseRecord(n, "Opisanie", sev) : n \in DiseaseNames, sev \in Severities}

\* every table of at most MaxKbRows rows with pairwise different names, in a
\* process whose classifier failed to load
InitKnowledgeBase ==
    /\ symptom_table = <<>>
    /\ disease_table \in {t \in SUBSET KbRecords :
                              /\ Cardinality(t) <= MaxKbRows
                              /\ \A a, b \in t : a.name = b.name => a = b}
    /\ phase = "ready"
    /\ model = None
    /\ diseases_list = <<>>
    /\ model_loaded_successfully = FALSE
    /\ model_error_message = "sistema diagnostiki vremenno nedostupna"
    /\ view = ""
    /\ request = NoRequest
    /\ current_symptoms = <<>>
    /\ input_vector = <<>>
    /\ classifier = NotInvoked
    /\ proba_calls = <<>>
    /\ probabilities = <<>>
    /\ top5_indices = <<>>
    /\ disease_info = NotCalled
    /\ suggestions = <<>>
    /\ response = NoResponse
    /\ loader = NoLoad

SpecKnowledgeBase == InitKnowledgeBase /\ [][KnowledgeBase \/ Respond]_vars

\* --------------------------------------------- the suggestions on their own
\* labels of a classifier, in the order of classes_ (sorted):
\* "COVID-19", "Артрит", "Гайморит", "Гастрит", "Гепатит", "Грипп", "Отит", "Язва желудка"
SuggestLabels ==
    << <<67, 79, 86, 73, 68, 45, 49, 57>>,
       <<1040, 1088, 1090, 1088, 1080, 1090>>,
       <<1043, 1072, 1081, 1084, 1086, 1088, 1080, 1090>>,
       <<1043, 1072, 1089, 1090, 1088, 1080, 1090>>,
       <<1043, 1077, 1087, 1072, 1090, 1080, 1090>>,
       <<1043, 1088, 1080, 1087, 1087>>,
       <<1054, 1090, 1080, 1090>>,
       <<1071, 1079, 1074, 1072, 32, 1078, 1077, 1083, 1091, 1076, 1082, 1072>> >>

\* searched names: "Простуда", "Грип", "Гастрит", "грипп", ""
SuggestQueries ==
    { <<1055, 1088, 1086, 1089, 1090, 1091, 1076, 1072>>,
      <<1043, 1088, 1080, 1087>>,
      <<1043, 1072, 1089, 1090, 1088, 1080, 1090>>,
      <<1075, 1088, 1080, 1087, 1087>>,
      <<>> }

\* the runs of consecutive labels of SuggestLabels, at most MaxSuggestClasses
\* long (the empty list among them)
SuggestClassLists ==
    {SubSeq(SuggestLabels, r[1], r[2]) :
        r \in {q \in (1..Len(SuggestLabels)) \X (0..Len(SuggestLabels)) :
                  q[2] - q[1] + 1 <= MaxSuggestClasses}}

\* a process after startup: the load failed, or it gave a classifier with one
\* of the label lists; no Disease row is stored
InitSuggest ==
    /\ symptom_table = <<>>
    /\ disease_table = {}
    /\ phase = "ready"
    /\ \E labels \in SuggestClassLists :
          \/ /\ model = [classes_ |-> labels, loaded |-> TRUE]
             /\ diseases_list = labels
             /\ model_loaded_successfully = TRUE
             /\ model_error_message = ""
          \/ /\ model = None
             /\ diseases_list = <<>>
             /\ model_loaded_successfully = FALSE
             /\ model_error_message = "sistema diagnostiki vremenno nedostupna"
    /\ view = ""
    /\ request = NoRequest
    /\ current_symptoms = <<>>
    /\ input_vector = <<>>
    /\ classifier = NotInvoked
    /\ proba_calls = <<>>
    /\ probabilities = <<>>
    /\ top5_indices = <<>>
    /\ disease_info = NotCalled
    /\ suggestions = <<>>
    /\ response = NoResponse
    /\ loader = NoLoad

\* get_disease_suggestions(searched_name), called on its own
GetDiseaseSuggestionsCall(searched_name) ==
    /\ Idle
    /\ phase = "ready"
    /\ view' = "get_disease_suggestions"
    /\ request' = [NoRequest EXCEPT !.disease_name = searched_name]
    /\ suggestions' = GetDiseaseSuggestions(model, searched_name)
    /\ current_symptoms' = <<>>
    /\ input_vector' = <<>>
    /\ classifier' = NotInvoked
    /\ proba_calls' = <<>>
    /\ probabilities' = <<>>
    /\ top5_indices' = <<>>
    /\ disease_info' = NotCalled
    /\ response' = NoResponse
    /\ UNCHANGED <<loader, tables, phase, globals>>

NextSuggest ==
    \/ \E searched_name \in SuggestQueries : GetDiseaseSuggestionsCall(searched_name)
    \/ \E disease_name \in SuggestQueries : DiseaseDetail(disease_name, FALSE)
    \/ Respond

SpecSuggest == InitSuggest /\ [][NextSuggest]_vars

\* ------------------------------------------------ the end-to-end scenario
\* "Кашель", "Высокая температура", "Головная боль"
Kashel == <<1050, 1072, 1096, 1077, 1083, 1100>>
VysokayaTemperatura ==
    <<1042, 1099, 1089, 1086, 1082, 1072, 1103, 32, 1090, 1077, 1084, 1087, 1077, 1088, 1072, 1090, 1091, 1088, 1072>>
GolovnayaBol == <<1043, 1086, 1083, 1086, 1074, 1085, 1072, 1103, 32, 1073, 1086, 1083, 1100>>

\* "Грипп", "Простуда", "COVID-19", and "грипп"
Gripp == <<1043, 1088, 1080, 1087, 1087>>
Prostuda == <<1055, 1088, 1086, 1089, 1090, 1091, 1076, 1072>>
Covid19 == <<67, 79, 86, 73, 68, 45, 49, 57>>
GrippLower == <<1075, 1088, 1080, 1087, 1087>>

E2eClasses == <<Gripp, Prostuda, Covid19>>

\* predict_proba returns [[0.8, 0.15, 0.05]]
E2eProba == <<8000, 1500, 500>>

\* vocabularies that hold "Кашель" and "Высокая температура"
E2eVocabularies ==
    {v \in SeqsUpTo({Kashel, VysokayaTemperatura, GolovnayaBol}, 3) :
        IsInjective(v) /\ {Kashel, VysokayaTemperatura} \subseteq Range(v)}

E2eRecords ==
    {DiseaseRecord(Gripp, "Opisanie", "high"),
     DiseaseRecord(GrippLower, "Opisanie", "high"),
     DiseaseRecord(Prostuda, "Opisanie", "low"),
     DiseaseRecord(Covid19, "Opisanie", "high")}

InitEndToEnd ==
    /\ symptom_table \in E2eVocabularies
    /\ disease_table \in {t \in SUBSET E2eRecords : Cardinality(t) <= MaxE2eRows}
    /\ phase = "ready"
    /\ model = [classes_ |-> E2eClasses, loaded |-> TRUE]
    /\ diseases_list = E2eClasses
    /\ model_loaded_successfully = TRUE
    /\ model_error_message = ""
    /\ view = ""
    /\ request = NoRequest
    /\ current_symptoms = <<>>
    /\ input_vector = <<>>
    /\ classifier = NotInvoked
    /\ proba_calls = <<>>
    /\ probabilities = <<>>
    /\ top5_indices = <<>>
    /\ disease_info = NotCalled
    /\ suggestions = <<>>
    /\ response = NoResponse
    /\ loader = NoLoad

\* POST /predict/ with the two symptoms, in either order
PredictEndToEnd ==
    /\ Idle
    /\ phase = "ready"
    /\ \E selected \in {<<Kashel, VysokayaTemperatura>>, <<VysokayaTemperatura, Kashel>>} :
          \E order \in Argsort(E2eProba) :
              PredictRequest("POST", selected,
                             [raises |-> FALSE, message |-> "",
                              proba |-> E2eProba, order |-> order])

SpecEndToEnd == InitEndToEnd /\ [][PredictEndToEnd \/ Respond]_vars

\* ------------------------------------------------- the home page on its own
\* Symptom names: "", "1", "Ё", "А", "Ка", "Ко", "ка", "я"
HomeNames ==
    {<<>>, <<49>>, <<1025>>, <<1040>>, <<1050, 1072>>, <<1050, 1086>>,
     <<1082, 1072>>, <<1103>>}

\* every vocabulary of at most MaxHomeSymptoms of these names, in a process
\* whose classifier failed to load
InitHome ==
    /\ symptom_table \in {v \in SeqsUpTo(HomeNames, MaxHomeSymptoms) : IsInjective(v)}
    /\ disease_table = {}
    /\ phase = "ready"
    /\ model = None
    /\ diseases_list = <<>>
    /\ model_loaded_successfully = FALSE
    /\ model_error_message = "sistema diagnostiki vremenno nedostupna"
    /\ view = ""
    /\ request = NoRequest
    /\ current_symptoms = <<>>
    /\ input_vector = <<>>
    /\ classifier = NotInvoked
    /\ proba_calls = <<>>
    /\ probabilities = <<>>
    /\ top5_indices = <<>>
    /\ disease_info = NotCalled
    /\ suggestions = <<>>
    /\ response = NoResponse
    /\ loader = NoLoad

SpecHome == InitHome /\ [][Home \/ Respond]_vars

\* ------------------------------------------- the results list on its own
RECURSIVE Orderings(_)
Orderings(S) ==
    IF S = {} THEN {<<>>}
    ELSE UNION {{<<x>> \o t : t \in Orderings(S \ {x})} : x \in S}

\* the probabilities of m classes, largest first: two of them are equal from
\* six classes on
ResultTail == <<0, 2000, 1500, 1000, 500, 500, 0, 0, 0, 0>>

ResultValues(m) ==
    [i \in 1..m |-> IF i = 1 THEN 10000 - SumVector(SubSeq(ResultTail, 1, m))
                    ELSE ResultTail[i]]

\* every array predict_proba can return with these values
ResultArrays(m) ==
    {[i \in 1..m |-> ResultValues(m)[perm[i]]] : perm \in Orderings(1..m)}

\* predict_proba reports one column per class of the classifier: as many as
\* diseases_list has entries, or one more when diseases_list is not the list
\* of its classes
ResultBehaviours(n) ==
    UNION {{[raises |-> FALSE, message |-> "", proba |-> p, order |-> o] :
               o \in Argsort(p)} : p \in ResultArrays(n) \cup ResultArrays(n + 1)}

\* a loaded classifier, one symptom "К", no Disease row or the row "Г"
InitResults ==
    /\ symptom_table = << <<1050>> >>
    /\ disease_table \in {{}, {DiseaseRecord(<<1043>>, "Opisanie", "high")}}
    /\ phase = "ready"
    /\ \E n \in 1..MaxResultClasses :
          /\ model = [classes_ |-> SubSeq(ClassLabels, 1, n), loaded |-> TRUE]
          /\ diseases_list = SubSeq(ClassLabels, 1, n)
    /\ model_loaded_successfully = TRUE
    /\ model_error_message = ""
    /\ view = ""
    /\ request = NoRequest
    /\ current_symptoms = <<>>
    /\ input_vector = <<>>
    /\ classifier = NotInvoked
    /\ proba_calls = <<>>
    /\ probabilities = <<>>
    /\ top5_indices = <<>>
    /\ disease_info = NotCalled
    /\ suggestions = <<>>
    /\ response = NoResponse
    /\ loader = NoLoad

\* POST /predict/ with the symptom "К"
PredictResults ==
    /\ Idle
    /\ \E clf \in ResultBehaviours(Len(diseases_list)) :
          PredictRequest("POST", << <<1050>> >>, clf)

SpecResults == InitResults /\ [][PredictResults \/ Respond]_vars

\* ------------------------------------------------ the load_diseases command
\* the keys that an entry of DISEASE_DATABASE may carry
DataKeys == {"description", "treatment", "symptoms", "severity", "specialist", "category"}

\* name -> data of DISEASE_DATABASE; keys are the keys present in data
SourceEntry(n, keys, sev) ==
    [name |-> n, keys |-> keys, data |-> InfoOf(DiseaseRecord(n, "Opisanie", sev))]

\* data.get(key, default)
DataGet(e, key, default) == IF key \in e.keys THEN e.data[key] ELSE default

\* the Disease object built for one entry
DiseaseOf(e) ==
    [name |-> e.name,
     description |-> DataGet(e, "description", Text("Opisanie otsutstvuet", <<>>, "")),
     treatment |-> DataGet(e, "treatment", "Lechenie ne ukazano"),
     symptoms |-> DataGet(e, "symptoms", <<>>),
     severity |-> DataGet(e, "severity", "unknown"),
     specialist |-> DataGet(e, "specialist", "Terapevt"),
     category |-> DataGet(e, "category", "Utochnyaetsya")]

\* entries: "Г" in full, "Г" as an empty dictionary, "г" with a severity that
\* is no code, "К" with a description only
SourceEntries ==
    {SourceEntry(<<1043>>, DataKeys, "high"),
     SourceEntry(<<1043>>, {}, "high"),
     SourceEntry(<<1075>>, {"severity"}, "invalid"),
     SourceEntry(<<1050>>, {"description"}, "low")}

\* a dictionary has one entry per key
Sources ==
    {S \in SUBSET SourceEntries :
        /\ Cardinality(S) <= MaxSourceEntries
        /\ \A a, b \in S : a.name = b.name => a = b}

\* rows created one by one before a load
LoadRecords ==
    {DiseaseRecord(n, "Opisanie", sev) : n \in DiseaseNames, sev \in {"medium", "invalid"}}

\* DISEASE_DATABASE as imported, or {} when the import failed
InitLoad ==
    /\ symptom_table = <<>>
    /\ disease_table = {}
    /\ phase = "ready"
    /\ model = None
    /\ diseases_list = <<>>
    /\ model_loaded_successfully = FALSE
    /\ model_error_message = "sistema diagnostiki vremenno nedostupna"
    /\ view = ""
    /\ request = NoRequest
    /\ current_symptoms = <<>>
    /\ input_vector = <<>>
    /\ classifier = NotInvoked
    /\ proba_calls = <<>>
    /\ probabilities = <<>>
    /\ top5_indices = <<>>
    /\ disease_info = NotCalled
    /\ suggestions = <<>>
    /\ response = NoResponse
    /\ loader \in {[NoLoad EXCEPT !.source = S] : S \in Sources}
                    \cup {[NoLoad EXCEPT !.imported = FALSE]}

\* variant: the old rows are deleted before the source is looked at
LoadStartDeletesFirst ==
    /\ loader.pc \in {"idle", "returned"}
    /\ Len(loader.completed) < MaxRuns
    /\ disease_table' = {}
    /\ loader' = IF loader.source = {}
                  THEN [loader EXCEPT !.pc = "returned", !.stdout = "error",
                                      !.before = disease_table]
                  ELSE [loader EXCEPT !.pc = "deleted", !.stdout = "started",
                                      !.before = disease_table]
    /\ UNCHANGED <<symptom_table, phase, globals, locals>>

\* variant: the old rows are kept
LoadStartKeepsOld ==
    /\ loader.pc \in {"idle", "returned"}
    /\ Len(loader.completed) < MaxRuns
    /\ loader' = IF loader.source = {}
                  THEN [loader EXCEPT !.pc = "returned", !.stdout = "error",
                                      !.before = disease_table]
                  ELSE [loader EXCEPT !.pc = "deleted", !.stdout = "started",
                                      !.before = disease_table]
    /\ UNCHANGED <<tables, phase, globals, locals>>

\* handle, up to the deletion: an empty source is an error and the command
\* returns; otherwise every row is deleted (and the deletion is committed)
LoadStart ==
    /\ loader.pc \in {"idle", "returned"}
    /\ Len(loader.completed) < MaxRuns
    /\ IF loader.source = {}
       THEN /\ loader' = [loader EXCEPT !.pc = "returned", !.stdout = "error",
                                        !.before = disease_table]
            /\ UNCHANGED disease_table
       ELSE /\ disease_table' = {}
            /\ loader' = [loader EXCEPT !.pc = "deleted", !.stdout = "started",
                                        !.before = disease_table]
    /\ UNCHANGED <<symptom_table, phase, globals, locals>>

\* handle, from the loop to the end: one object per entry, one bulk_create
LoadFinish ==
    /\ loader.pc = "deleted"
    /\ disease_table' = disease_table \cup {DiseaseOf(e) : e \in loader.source}
    /\ loader' = [loader EXCEPT !.pc = "returned", !.stdout = "loaded",
                                !.completed = Append(@, disease_table')]
    /\ UNCHANGED <<symptom_table, phase, globals, locals>>

\* the operator goes on to something else than running the command again
LoadExit ==
    /\ loader.pc = "returned"
    /\ loader' = [loader EXCEPT !.pc = "idle", !.stdout = "", !.before = {},
                                !.completed = <<>>]
    /\ UNCHANGED <<tables, phase, globals, locals>>

\* a row is created while the command is not running
DiseaseCreateBetweenLoads(r) ==
    /\ loader.pc = "idle"
    /\ DiseaseCreate(r)

\* lookups are served at any time, also between the two statements of the
\* command
NextLoad ==
    \/ LoadStart
    \/ LoadFinish
    \/ LoadExit
    \/ \E r \in LoadRecords : DiseaseCreateBetweenLoads(r)
    \/ \E disease_name \in DiseaseNames, from_kb \in BOOLEAN :
          DiseaseDetail(disease_name, from_kb)
    \/ Respond

SpecLoad == InitLoad /\ [][NextLoad]_vars

\* ================================================================ properties
PostHandled == view = "predict" /\ request.method = "POST" /\ model # None

Known(selected) == SelectSeq(selected, LAMBDA x : x \in Range(current_symptoms))

\* C1: in predict the encoded vector has the length of the vocabulary, holds 1
\* at position i exactly when vocabulary[i] is among the submitted names, and
\* is the vector of the submission without its unknown names.
C1_VectorEncodesSubmission ==
    PostHandled =>
        /\ Len(input_vector) = Len(current_symptoms)
        /\ \A i \in 1..Len(current_symptoms) :
              input_vector[i] = IF current_symptoms[i] \in Range(request.symptoms)
                                THEN 1 ELSE 0
        /\ input_vector = EncodeSymptoms(current_symptoms, Known(request.symptoms))

C1_Witness ==
    /\ PostHandled
    /\ Len(current_symptoms) = 2
    /\ input_vector = <<0, 1>>
    /\ UnknownSymptom \in Range(request.symptoms)

OnesOf(vec) == {i \in 1..Len(vec) : vec[i] = 1}

\* C2: the vector holds exactly |S \cap vocabulary| ones and zeros elsewhere,
\* and every submission with the same set of names (reordered, or with names
\* repeated) is encoded as the same vector.
C2_VectorDependsOnSetOnly ==
    PostHandled =>
        /\ \A i \in 1..Len(input_vector) : input_vector[i] \in {0, 1}
        /\ Cardinality(OnesOf(input_vector))
              = Cardinality(Range(request.symptoms) \cap Range(current_symptoms))
        /\ \A other \in SeqsUpTo(SubmittedNames, MaxSelected + 1) :
              Range(other) = Range(request.symptoms)
                  => EncodeSymptoms(current_symptoms, other) = input_vector

C2_Witness ==
    /\ PostHandled
    /\ Len(current_symptoms) = 2
    /\ request.symptoms = <<current_symptoms[2], current_symptoms[2]>>
    /\ input_vector = <<0, 1>>

AllUnknown ==
    Range(request.symptoms) \cap Range(symptom_table) = {}

SelectSymptomPage ==
    [status |-> 200, template |-> "diagnosis/error.html",
     context |-> [error |-> [head |-> "Pozhaluysta, vyberite hotya by odin simptom",
                             detail |-> ""]]]

\* C3 as stated: every POST to /predict/ whose names are all absent from the
\* vocabulary gets the "select at least one symptom" error page, status 200.
C3_Original ==
    (view = "predict" /\ request.method = "POST" /\ request.symptoms # <<>> /\ AllUnknown)
        => response = SelectSymptomPage

\* C3 amended: with a classifier loaded, a POST whose names are all absent
\* from the vocabulary gets the response of a POST with no names, the "select
\* at least one symptom" error page with status 200; with no classifier
\* loaded both get the home page.
C3_UnknownOnlyIsEmpty ==
    (view = "predict" /\ request.method = "POST" /\ AllUnknown) =>
        IF model # None
        THEN /\ response = SelectSymptomPage
             /\ response = PredictPost(symptom_table, disease_table, diseases_list,
                                       <<>>, NotInvoked).response
        ELSE /\ response.template = "diagnosis/home.html"
             /\ response = HomeResponse(symptom_table, diseases_list,
                                        model_loaded_successfully, model_error_message)

C3_Witness ==
    /\ PostHandled
    /\ request.symptoms = <<UnknownSymptom>>
    /\ symptom_table # <<>>
    /\ response = SelectSymptomPage

\* C4: predict_proba is never called with an all-zero vector; a request whose
\* vector is all zero ends without a classifier call, and a call is made with
\* the encoded vector, which holds a 1.
C4_NoCallOnZeroVector ==
    /\ \A k \in 1..Len(proba_calls) :
          /\ proba_calls[k] = input_vector
          /\ \E i \in 1..Len(proba_calls[k]) : proba_calls[k][i] = 1
    /\ (view = "predict" /\ OnesOf(input_vector) = {}) =>
          proba_calls = <<>> /\ classifier = NotInvoked

C4_Witness ==
    /\ PostHandled
    /\ Len(proba_calls) = 1
    /\ OnesOf(input_vector) # {}

\* C5: the selected indices are pairwise distinct, number min(5, n), and are
\* listed in non-increasing order of probability.
C5_TopFiveSortedDistinct ==
    view = "top5" =>
        /\ Len(top5_indices) = Min2(5, Len(probabilities))
        /\ \A k \in 1..Len(top5_indices) : top5_indices[k] \in 1..Len(probabilities)
        /\ IsInjective(top5_indices)
        /\ \A i, j \in 1..Len(top5_indices) :
              i < j => probabilities[top5_indices[i]] >= probabilities[top5_indices[j]]

C5_Witness ==
    /\ view = "top5"
    /\ Len(probabilities) = 6
    /\ Len(top5_indices) = 5
    /\ probabilities[top5_indices[1]] > probabilities[top5_indices[5]]

\* C6 as stated: of two returned classes with equal probability the one with
\* the smaller index comes first.
C6_Original ==
    view = "top5" =>
        \A i, j \in 1..Len(top5_indices) :
            (i < j /\ probabilities[top5_indices[i]] = probabilities[top5_indices[j]])
                => top5_indices[i] < top5_indices[j]

\* C6 amended: ties are not broken by index order (the reversal of an ascending
\* argsort puts either of two equal classes first); the order of two returned
\* classes is fixed only when their probabilities differ: the one with the
\* strictly higher probability comes first.
C6_OnlyProbabilityOrders ==
    view = "top5" =>
        \A i, j \in 1..Len(top5_indices) :
            probabilities[top5_indices[i]] > probabilities[top5_indices[j]] => i < j

C6_Witness ==
    /\ view = "top5"
    /\ \E i, j \in 1..Len(top5_indices) :
          /\ i < j
          /\ probabilities[top5_indices[i]] = probabilities[top5_indices[j]]
          /\ top5_indices[i] > top5_indices[j]
    /\ \E i, j \in 1..Len(top5_indices) :
          probabilities[top5_indices[i]] > probabilities[top5_indices[j]]

\* C7: when the classifier call raises, predict answers the error page with
\* status 200: the exception does not leave the view and no results page is
\* produced.
C7_ClassifierFailureCaught ==
    (view = "predict" /\ classifier.raises) =>
        /\ response.status = 200
        /\ response.template = "diagnosis/error.html"
        /\ "raised" \notin DOMAIN response
        /\ "error" \in DOMAIN response.context

C7_Witness ==
    /\ view = "predict"
    /\ classifier.raises
    /\ OnesOf(input_vector) # {}
    /\ response.status = 200

\* C8: the error page shown after a classifier failure is the same whatever
\* exception the classifier raised on the request.
C8_Original ==
    (view = "predict" /\ classifier.raises) =>
        \A m \in ExceptionMessages :
            PredictPost(symptom_table, disease_table, diseases_list, request.symptoms,
                        [classifier EXCEPT !.message = m]).response = response

SameButCase(a, b) ==
    /\ Len(a) = Len(b)
    /\ \A i \in 1..Len(a) : UpperChar(a[i]) = UpperChar(b[i])

\* C9: whenever a record with the looked-up name exists (in any letter case),
\* the lookup returns a record, and the lookup of every name that differs from
\* it only in letter case returns the same record.
C9_Original ==
    (view = "disease_detail"
        /\ \E r \in disease_table : SameButCase(r.name, request.disease_name)) =>
        /\ disease_info.raised = ""
        /\ disease_info.found
        /\ \A other \in LookupNames :
              SameButCase(other, request.disease_name)
                  => GetDiseaseInfoFromDb(disease_table, other) = disease_info

\* C10: a name that matches no Disease record gets the placeholder: severity
\* "unknown", specialist "Терапевт", category "Уточняется", and a description
\* that begins with the marker phrase and contains the name.
C10_UnknownGetsPlaceholder ==
    (view = "disease_detail"
        /\ ~ \E r \in disease_table : SameButCase(r.name, request.disease_name)) =>
        /\ disease_info.raised = ""
        /\ ~ disease_info.found
        /\ disease_info.info.severity = "unknown"
        /\ disease_info.info.specialist = "Terapevt"
        /\ disease_info.info.category = "Utochnyaetsya"
        /\ disease_info.info.description.head = "Informaciya o zabolevanii"
        /\ disease_info.info.description.arg = request.disease_name

C10_Witness ==
    /\ view = "disease_detail"
    /\ disease_table # {}
    /\ request.disease_name # <<>>
    /\ ~ \E r \in disease_table : SameButCase(r.name, request.disease_name)
    /\ ~ disease_info.found

InfoKeys == {"description", "treatment", "symptoms", "severity", "specialist", "category"}

\* C11: get_disease_info_from_db never raises: for every looked-up name and
\* every state of the Disease table it returns a record with exactly the six
\* keys description, treatment, symptoms, severity, specialist, category.
C11_Original ==
    view = "disease_detail" =>
        /\ disease_info.called
        /\ disease_info.raised = ""
        /\ DOMAIN disease_info.info = InfoKeys

MatchingRows == {r \in disease_table : SameButCase(r.name, request.disease_name)}

\* C12: disease_detail answers 200; it renders the "not found" page exactly
\* when no Disease record matches the requested name but for letter case, and
\* when a record matches it renders the detail page with the six fields of
\* that record, whatever their values.
C12_Original ==
    view = "disease_detail" =>
        /\ response.status = 200
        /\ (response.template = "diagnosis/disease_not_found.html") <=> (MatchingRows = {})
        /\ MatchingRows # {} =>
              /\ response.template = "diagnosis/disease_detail.html"
              /\ \E r \in MatchingRows :
                    /\ response.context.description = r.description
                    /\ response.context.treatment = r.treatment
                    /\ response.context.symptoms = r.symptoms
                    /\ response.context.severity = r.severity
                    /\ response.context.specialist = r.specialist
                    /\ response.context.category = r.category

\* the entries of the knowledge base page
KbEntries ==
    UNION {Range(g.diseases) : g \in Range(response.context.diseases_by_letter)}

\* C13: get_severity_display maps high, medium, low, unknown and variable to
\* ВЫСОКАЯ, СРЕДНЯЯ, НИЗКАЯ, НЕОПРЕДЕЛЕНА and ЗАВИСИТ ОТ СТАДИИ, every other
\* severity to НЕОПРЕДЕЛЕНА, and raises for none: the page is rendered with
\* one entry per row.
C13_SeverityDisplayTotal ==
    view = "knowledge_base" =>
        /\ response.status = 200
        /\ Cardinality(KbEntries) = Cardinality(disease_table)
        /\ \A e \in KbEntries :
              /\ e.info.severity = "high" => e.severity_display = "VYSOKAYA"
              /\ e.info.severity = "medium" => e.severity_display = "SREDNYAYA"
              /\ e.info.severity = "low" => e.severity_display = "NIZKAYA"
              /\ e.info.severity = "unknown" => e.severity_display = "NEOPREDELENA"
              /\ e.info.severity = "variable" => e.severity_display = "ZAVISIT OT STADII"
              /\ e.info.severity \notin {"high", "medium", "low", "unknown", "variable"}
                    => e.severity_display = "NEOPREDELENA"

C13_Witness ==
    /\ view = "knowledge_base"
    /\ \E e \in KbEntries : e.info.severity = "invalid" /\ e.severity_display = "NEOPREDELENA"
    /\ \E e \in KbEntries :
          e.info.severity = "variable" /\ e.severity_display = "ZAVISIT OT STADII"

\* get_disease_suggestions has returned: called on its own, or for the
\* "not found" page of disease_detail
Suggested ==
    \/ view = "get_disease_suggestions"
    \/ view = "disease_detail" /\ response.template = "diagnosis/disease_not_found.html"

\* similarity of a label to the searched name
Similarity(label) == Ratio(label, request.disease_name)

SuggestionsRanked ==
    /\ Len(suggestions) <= 5
    /\ \A k \in 1..Len(suggestions) : suggestions[k] \in Range(model.classes_)
    /\ \A i, j \in 1..Len(suggestions) :
          i < j => ~RatioLess(Similarity(suggestions[i]), Similarity(suggestions[j]))
    /\ \A label \in Range(model.classes_) \ Range(suggestions) :
          \A k \in 1..Len(suggestions) :
              ~RatioLess(Similarity(suggestions[k]), Similarity(label))

\* C14 as stated: with a classifier loaded the suggestions are at most 5
\* labels of the classifier, each with similarity strictly above 0.3, in
\* non-increasing order of similarity, and no label more similar than a
\* returned one is left out.
C14_Original ==
    (Suggested /\ model # None) =>
        /\ SuggestionsRanked
        /\ \A k \in 1..Len(suggestions) :
              10 * Similarity(suggestions[k]).num > 3 * Similarity(suggestions[k]).den

\* C14 amended: the same, with similarity at least 0.3 (a label whose
\* similarity is exactly 0.3 is returned), and every label left out has
\* similarity below 0.3 unless 5 labels are returned.
C14_AtLeastThreshold ==
    (Suggested /\ model # None) =>
        /\ SuggestionsRanked
        /\ \A k \in 1..Len(suggestions) :
              10 * Similarity(suggestions[k]).num >= 3 * Similarity(suggestions[k]).den
        /\ Len(suggestions) < 5 =>
              \A label \in Range(model.classes_) \ Range(suggestions) :
                  10 * Similarity(label).num < 3 * Similarity(label).den

\* six labels pass the threshold and five are returned
C14_Witness ==
    /\ Suggested
    /\ model # None
    /\ Len(suggestions) = 5
    /\ Cardinality({label \in Range(model.classes_) :
                       10 * Similarity(label).num >= 3 * Similarity(label).den}) = 6

\* C15: with no classifier loaded get_disease_suggestions returns the empty
\* list for every searched name, and disease_detail answers the "not found"
\* page, status 200, with an empty suggestion list.
C15_NoClassifierNoSuggestions ==
    (model = None /\ view \in {"get_disease_suggestions", "disease_detail"}) =>
        /\ suggestions = <<>>
        /\ view = "disease_detail" =>
              /\ response.status = 200
              /\ response.template = "diagnosis/disease_not_found.html"
              /\ response.context.suggestions = <<>>

C15_Witness ==
    /\ model = None
    /\ view = "get_disease_suggestions"
    /\ request.disease_name # <<>>
    /\ suggestions = <<>>

C17_StartupNeverCrashes ==
    /\ model_loaded_successfully <=> model # None
    /\ phase = "ready" =>
          IF model = None
          THEN /\ diseases_list = <<>>
               /\ ~model_loaded_successfully
               /\ model_error_message = "sistema diagnostiki vremenno nedostupna"
          ELSE /\ diseases_list = model.classes_
               /\ model_loaded_successfully
               /\ model_error_message = ""
    /\ phase = "import" =>
          /\ model = None
          /\ diseases_list = <<>>
          /\ model_error_message = ""

\* after a failed load the home page is served and reports the failure
C17_Witness ==
    /\ phase = "ready"
    /\ model = None
    /\ view = "home"
    /\ response.status = 200
    /\ ~response.context.model_loaded
    /\ response.context.model_error = "sistema diagnostiki vremenno nedostupna"

\* C18: once views.py is imported no step (a request handler on any input,
\* ending in any page or in an exception, or a change of the tables) changes
\* model, diseases_list, model_loaded_successfully or model_error_message.
C18_GlobalsReadOnly ==
    [][phase = "ready" => globals' = globals]_vars

\* a request that ended in an exception, in a process whose classifier is loaded
C18_Witness ==
    /\ phase = "ready"
    /\ model # None
    /\ diseases_list = model.classes_
    /\ view = "disease_detail"
    /\ response.status = 500

\* C19: the vocabulary predict encodes against is frozen once views.py is
\* imported: no later step, the adding or removing of Symptom rows included,
\* changes the length of the vector or the vector that predict encodes for a
\* submission.
C19_Original ==
    [][phase = "ready" =>
          /\ Len(GetMlSymptoms(symptom_table')) = Len(GetMlSymptoms(symptom_table))
          /\ \A selected \in Submissions :
                EncodeSymptoms(GetMlSymptoms(symptom_table'), selected)
                    = EncodeSymptoms(GetMlSymptoms(symptom_table), selected)]_vars

PredictPages == {"diagnosis/results.html", "diagnosis/error.html"}

\* C20 as stated: every POST to /predict/, with or without a loaded
\* classifier, is answered with the results page or the error page, and with
\* the error page when no submitted name is in the vocabulary or the
\* classifier call failed.
C20_Original ==
    (view = "predict" /\ request.method = "POST") =>
        /\ response.template \in PredictPages
        /\ (AllUnknown \/ classifier.raises) => response.template = "diagnosis/error.html"

\* C20 amended: with a classifier loaded a POST to /predict/ is answered,
\* status 200, with the results page or the error page; the error page when
\* no submitted name is in the vocabulary or the classifier call failed, and
\* otherwise only when building the results list raised. With no classifier
\* loaded every POST is answered with the home page.
C20_PostResultsOrError ==
    (view = "predict" /\ request.method = "POST") =>
        IF model # None
        THEN /\ response.status = 200
             /\ response.template \in PredictPages
             /\ (AllUnknown \/ classifier.raises)
                    => response.template = "diagnosis/error.html"
             /\ (response.template = "diagnosis/error.html"
                    /\ ~AllUnknown /\ ~classifier.raises)
                    => ResultsRaise(disease_table, diseases_list, top5_indices) # ""
        ELSE /\ response.status = 200
             /\ response.template = "diagnosis/home.html"
             /\ ~response.context.model_loaded

C20_Witness ==
    /\ view = "predict"
    /\ request.method = "POST"
    /\ model # None
    /\ response.template = "diagnosis/results.html"
    /\ Len(response.context.results) = 2
    /\ UnknownSymptom \in Range(request.symptoms)

\* C21: a request to /predict/ that is not a POST, or that arrives when no
\* classifier is loaded, makes no classifier call and encodes no vector, and
\* is answered with the home page, status 200, whose context carries the load
\* flag as model_loaded and the error message as model_error.
C21_FallsBackToHome ==
    (view = "predict" /\ (request.method # "POST" \/ model = None)) =>
        /\ classifier = NotInvoked
        /\ proba_calls = <<>>
        /\ input_vector = <<>>
        /\ response.status = 200
        /\ response.template = "diagnosis/home.html"
        /\ response.context.model_loaded = model_loaded_successfully
        /\ response.context.model_error = model_error_message
        /\ response.context.symptoms = symptom_table

\* a POST of a known symptom to a process whose classifier failed to load
C21_Witness ==
    /\ view = "predict"
    /\ request.method = "POST"
    /\ model = None
    /\ Range(request.symptoms) \cap Range(symptom_table) # {}
    /\ response.template = "diagnosis/home.html"
    /\ response.context.model_error = "sistema diagnostiki vremenno nedostupna"

\* the groups of the home page, and the group positions that hold a symptom
HomeGroups == response.context.symptoms_by_letter

GroupsHolding(symptom) ==
    {k \in 1..Len(HomeGroups) : symptom \in Range(HomeGroups[k].symptoms)}

\* "#" unless the upper-cased first character lies in А..Я
ExpectedKey(symptom) ==
    IF UpperChar(symptom[1]) \in 1040..1071 THEN <<UpperChar(symptom[1])>> ELSE <<35>>

HomeGroupsOrdered ==
    /\ \A k \in 1..Len(HomeGroups) :
          /\ HomeGroups[k].symptoms # <<>>
          /\ \A i \in 1..Len(HomeGroups[k].symptoms) :
                /\ HomeGroups[k].symptoms[i] \in Range(current_symptoms)
                /\ HomeGroups[k].letter = ExpectedKey(HomeGroups[k].symptoms[i])
          /\ \A i, j \in 1..Len(HomeGroups[k].symptoms) :
                i < j => NameLess(HomeGroups[k].symptoms[i], HomeGroups[k].symptoms[j])
    /\ \A k, l \in 1..Len(HomeGroups) :
          k < l => NameLess(HomeGroups[k].letter, HomeGroups[l].letter)

GroupSizes == SumVector([k \in 1..Len(HomeGroups) |-> Len(HomeGroups[k].symptoms)])

\* C22 as stated: every symptom of the vocabulary is in exactly one group of
\* the home page and the group sizes sum to the length of the vocabulary; the
\* key of a group is the upper-cased first character of its symptoms when in
\* А..Я and "#" otherwise; keys ascend and so do the symptoms of a group.
C22_Original ==
    view = "home" =>
        /\ \A symptom \in Range(current_symptoms) :
              Cardinality(GroupsHolding(symptom)) = 1
        /\ GroupSizes = Len(current_symptoms)
        /\ HomeGroupsOrdered

\* C22 amended: the same for the symptoms with a non-empty name (the group
\* sizes sum to their number); a symptom with an empty name is in no group.
C22_NonEmptyGrouped ==
    view = "home" =>
        /\ \A symptom \in Range(current_symptoms) :
              Cardinality(GroupsHolding(symptom)) = IF symptom = <<>> THEN 0 ELSE 1
        /\ GroupSizes = Cardinality(Range(current_symptoms) \ {<<>>})
        /\ HomeGroupsOrdered

\* "ка", "Ё" and "Ка": the group "#" before the group "К", which holds two
C22_Witness ==
    /\ view = "home"
    /\ Len(current_symptoms) = 3
    /\ Len(HomeGroups) = 2
    /\ HomeGroups[1].letter = <<35>>
    /\ HomeGroups[2].symptoms = << <<1050, 1072>>, <<1082, 1072>> >>

\* the five severity codes
SeverityCodes == {"high", "medium", "low", "variable", "unknown"}

\* C23 as stated: every record returned by the disease resolver, found or
\* placeholder, has a severity among the five codes, in every store reached
\* by creating records and by bulk load.
C23_Original ==
    (disease_info.called /\ disease_info.raised = "") =>
        disease_info.info.severity \in SeverityCodes

\* the handlers of the request path that read the tables
ReadingViews == {"predict", "home", "disease_detail", "knowledge_base"}

\* C24: serving a request with predict, home, disease_detail or
\* knowledge_base, on any input and whatever page or exception it ends in,
\* leaves the Symptom and the Disease rows as they were.
C24_RequestPathReadOnly ==
    [][(view = "" /\ view' \in ReadingViews) => tables' = tables]_vars

\* a lookup that ended in the not-found page while both tables hold rows
C24_Witness ==
    /\ view = "disease_detail"
    /\ response.template = "diagnosis/disease_not_found.html"
    /\ disease_info.called /\ disease_info.raised = "" /\ ~disease_info.found
    /\ disease_table # {}
    /\ symptom_table # <<>>

\* the groups of the knowledge base page, and the places (group, position)
\* at which a name is listed
KbGroups == response.context.diseases_by_letter

KbPlaces(name) ==
    {p \in UNION {{<<k, i>> : i \in 1..Len(KbGroups[k].diseases)} : k \in 1..Len(KbGroups)} :
        KbGroups[p[1]].diseases[p[2]].name = name}

KbGroupSizes == SumVector([k \in 1..Len(KbGroups) |-> Len(KbGroups[k].diseases)])

\* C25: knowledge_base lists every Disease row exactly once, in the group
\* keyed by the upper-cased first character of its name; the rows of a group
\* are in ascending name order; total_diseases is the number of rows and the
\* sum of the group sizes.
C25_ListsEveryRecordOnce ==
    view = "knowledge_base" =>
        /\ \A r \in disease_table :
              /\ Cardinality(KbPlaces(r.name)) = 1
              /\ \A p \in KbPlaces(r.name) :
                    /\ KbGroups[p[1]].letter = <<UpperChar(r.name[1])>>
                    /\ KbGroups[p[1]].diseases[p[2]].info = InfoOf(r)
        /\ \A k \in 1..Len(KbGroups) : \A i, j \in 1..Len(KbGroups[k].diseases) :
              i < j => NameLess(KbGroups[k].diseases[i].name, KbGroups[k].diseases[j].name)
        /\ \A k, l \in 1..Len(KbGroups) : k # l => KbGroups[k].letter # KbGroups[l].letter
        /\ response.context.total_diseases = Cardinality(disease_table)
        /\ response.context.total_diseases = KbGroupSizes

\* "Г" and "г" listed in one group, in this order
C25_Witness ==
    /\ view = "knowledge_base"
    /\ response.context.total_diseases = 2
    /\ Len(KbGroups) = 1
    /\ KbGroups[1].letter = <<1043>>
    /\ KbGroups[1].diseases[1].name = <<1043>>
    /\ KbGroups[1].diseases[2].name = <<1075>>

\* the results list of the page, and the classes that are not in it
ResultsRendered == view = "predict" /\ response.template = "diagnosis/results.html"

LeftOut == (1..Len(probabilities)) \ Range(top5_indices)

\* C26: on a results page the k-th entry carries the disease and the
\* probability of the k-th selected index, the first entry has the largest
\* probability of the array and no class left out has a probability strictly
\* greater than a class of the list; if a selected index has no entry in
\* diseases_list the request ends in the error page without a results list.
C26_ResultsFollowIndices ==
    /\ ResultsRendered =>
          /\ Len(response.context.results) = Len(top5_indices)
          /\ \A k \in 1..Len(top5_indices) :
                /\ response.context.results[k].disease = diseases_list[top5_indices[k]]
                /\ response.context.results[k].probability = probabilities[top5_indices[k]]
          /\ \A i \in 1..Len(probabilities) :
                response.context.results[1].probability >= probabilities[i]
          /\ \A i \in LeftOut : \A j \in Range(top5_indices) :
                ~(probabilities[i] > probabilities[j])
    /\ (view = "predict" /\ \E i \in Range(top5_indices) : i > Len(diseases_list)) =>
          /\ response.template = "diagnosis/error.html"
          /\ response.context.error = AnalysisErrorMessage("list index out of range")
          /\ "results" \notin DOMAIN response.context

\* six classes, five entries: a class of probability 5% is left out and
\* another class of probability 5% is the last entry
C26_Witness ==
    /\ ResultsRendered
    /\ Len(probabilities) = 6
    /\ Len(response.context.results) = 5
    /\ response.context.results[1].disease = <<1082>>
    /\ response.context.results[5].probability = 500
    /\ \E i \in LeftOut : probabilities[i] = 500

\* C27 as stated: on a results page symptoms_count is the number of 1
\* positions of the feature vector, and selected_symptoms holds only names of
\* the vocabulary, each once.
C27_Original ==
    ResultsRendered =>
        /\ response.context.symptoms_count = SumVector(input_vector)
        /\ Range(response.context.selected_symptoms) \subseteq Range(current_symptoms)
        /\ IsInjective(response.context.selected_symptoms)

\* the command has returned after loading
Loaded == loader.pc = "returned" /\ loader.stdout = "loaded"

\* the row that an entry of the source stands for
RowStandsFor(r, e) ==
    /\ r.name = e.name
    /\ r.description = IF "description" \in e.keys THEN e.data.description
                        ELSE Text("Opisanie otsutstvuet", <<>>, "")
    /\ r.treatment = IF "treatment" \in e.keys THEN e.data.treatment
                      ELSE "Lechenie ne ukazano"
    /\ r.symptoms = IF "symptoms" \in e.keys THEN e.data.symptoms ELSE <<>>
    /\ r.severity = IF "severity" \in e.keys THEN e.data.severity ELSE "unknown"
    /\ r.specialist = IF "specialist" \in e.keys THEN e.data.specialist ELSE "Terapevt"
    /\ r.category = IF "category" \in e.keys THEN e.data.category ELSE "Utochnyaetsya"

\* C28: when load_diseases has completed with a non-empty source the Disease
\* table holds exactly one row per entry of the source, with the defaults for
\* the fields an entry lacks, and no row from before the run; a second run in
\* a row leaves the table as the first left it.
C28_LoadReplacesStore ==
    Loaded =>
        /\ \A e \in loader.source :
              Cardinality({r \in disease_table : RowStandsFor(r, e)}) = 1
        /\ \A r \in disease_table : \E e \in loader.source : RowStandsFor(r, e)
        /\ Cardinality(disease_table) = Cardinality(loader.source)
        /\ \A i, j \in 1..Len(loader.completed) :
              loader.completed[i] = loader.completed[j]

\* the second run in a row has completed: the table holds two rows, none of
\* them named "К", and an entry without fields has become a row of defaults
C28_Witness ==
    /\ Loaded
    /\ Len(loader.completed) = 2
    /\ \A r \in disease_table : r.name # <<1050>>
    /\ \E r \in disease_table :
          /\ r.description.head = "Opisanie otsutstvuet"
          /\ r.severity = "unknown"
          /\ r.symptoms = <<>>
    /\ Cardinality(disease_table) = 2

\* C29: with an empty DISEASE_DATABASE, the failed import included,
\* load_diseases reports the error and returns with the Disease table as it
\* was: no row deleted, none created.
C29_EmptySourceKeepsStore ==
    (loader.pc = "returned" /\ loader.source = {}) =>
        /\ loader.stdout = "error"
        /\ disease_table = loader.before
        /\ loader.completed = <<>>

\* the import failed and the command has returned; the table holds two rows
C29_Witness ==
    /\ loader.pc = "returned"
    /\ ~loader.imported
    /\ loader.stdout = "error"
    /\ Cardinality(disease_table) = 2

\* names that were in the table when the run started and are in the source
Reloaded ==
    {r.name : r \in loader.before} \cap {e.name : e \in loader.source}

\* C30 as stated: a lookup of a name that was in the table before the run
\* and is in the source, served while load_diseases runs, returns a real
\* record, never the placeholder or the not-found page.
C30_Original ==
    [][(/\ loader.pc = "deleted"
        /\ view = "" /\ view' = "disease_detail"
        /\ request'.disease_name \in Reloaded)
       => (/\ disease_info'.raised = ""
           /\ disease_info'.found
           /\ response'.template = "diagnosis/disease_detail.html")]_vars

====
